---- MODULE Spec2Model ----
(***************************************************************************)
(* scripts/teststub.py of coctus: the harness that drives                  *)
(* `coctus next <clash>` and `coctus generate-stub <lang>` over a corpus   *)
(* of cached clashes and checks every generated stub with the language's   *)
(* compiler or type checker.                                               *)
(*                                                                         *)
(* One step of the model is one external interaction of the script         *)
(* together with all the bookkeeping the script does around it: one        *)
(* `coctus next`, or one whole iteration of the inner loop (generate-stub, *)
(* classification, validity check, tally update, diagnostics).             *)
(*                                                                         *)
(* Texts that the script searches (the tool's standard error) are          *)
(* sequences of words; `in` is contiguous-subsequence search on them.      *)
(***************************************************************************)
EXTENDS Integers, Sequences, FiniteSets, TLC

\* ------------------------------------------------------------------ bounds
\* The largest corpus / clash_ids list explored.
MaxClashes == 2
\* The largest langs_to_check dict explored when check_stubgen is called directly.
MaxLangs == 2

\* --------------------------------------------------------------- universes
AllIds == <<"p1", "p2", "p3", "p4">>
PuzzleIds == {AllIds[k] : k \in 1..MaxClashes}

\* The keys of main's langs_to_check, in insertion order.
MainLangs == <<"c", "cpp", "python", "rust">>
Languages == {MainLangs[k] : k \in 1..Len(MainLangs)}

Range(s) == {s[k] : k \in 1..Len(s)}

\* Sequences over S without repetition, of length exactly k.
DistinctSeqs(S, k) ==
  {s \in [1..k -> S] : \A a, b \in 1..k : a # b => s[a] # s[b]}

\* The dicts check_stubgen is explored with: m consecutive entries of main's
\* dict, starting at entry k and wrapping around; the windows start at
\* "cpp" and at "rust".
LangWindow(k, m) ==
  [x \in 1..m |-> MainLangs[((k + x - 2) % Len(MainLangs)) + 1]]
WindowStarts == {k \in 1..Len(MainLangs) : MainLangs[k] \in {"cpp", "rust"}}
LangDicts == {LangWindow(k, m) : k \in WindowStarts, m \in 0..MaxLangs}

\* The orders a dict with the keys of ls can be iterated in.
Orders(ls) == DistinctSeqs(Range(ls), Len(ls))

\* ------------------------------------------------------------ text search
\* Python's `needle in hay` on word sequences.
Contains(hay, needle) ==
  \E k \in 0..(Len(hay) - Len(needle)) :
    \A m \in 1..Len(needle) : hay[k + m] = needle[m]

\* The literal of line 64.
Sentinel == <<"provides", "no", "input", "stub", "generator">>

\* ------------------------------------------------------- the external tool
\* What `run([COCTUS_EXE, "generate-stub", lang], capture_output=True)` can
\* hand back: a return code, the decoded standard error and the standard
\* output (the stub).
ValidSrc == "int main(void){return 0;}"
InvalidSrc == "int main(void){return 0"

R_valid == [returncode |-> 0, stderr |-> <<>>, stdout |-> ValidSrc]
R_invalid == [returncode |-> 0, stderr |-> <<>>, stdout |-> InvalidSrc]
R_warn ==
  [returncode |-> 0,
   stderr |-> <<"warning:", "provides", "no", "input", "stub", "generator">>,
   stdout |-> ValidSrc]
R_nogen ==
  [returncode |-> 1,
   stderr |-> <<"Language", "provides", "no", "input", "stub", "generator">>,
   stdout |-> ""]
R_unavail ==
  [returncode |-> 1,
   stderr |-> <<"error:", "no", "input", "stub", "generator", "available">>,
   stdout |-> ""]
R_err ==
  [returncode |-> 1,
   stderr |-> <<"error:", "failed", "to", "parse", "clash">>,
   stdout |-> ""]
ToolResults == {R_valid, R_invalid, R_warn, R_nogen, R_unavail, R_err}
NoResult == [returncode |-> 0, stderr |-> <<>>, stdout |-> ""]

\* --------------------------------------------------------- the toolchains
\* The exit status of a compiler / type checker on a source text.
Compile(src) == IF src = ValidSrc THEN 0 ELSE 1

Garbage == "librust_out.rmeta"
TmpFile == "tmpfile"

\* What subprocess.run of a checker can do: return with the checker's exit
\* status, or raise (the executable is missing, the call is interrupted).
\* `wrote` says whether the child left its metadata file behind; only rustc
\* --emit=metadata writes one, always when it succeeds.
RunOutcomes(lang, src) ==
  LET rc == Compile(src)
      wroteOnReturn == IF lang # "rust" THEN {FALSE}
                       ELSE IF rc = 0 THEN {TRUE} ELSE BOOLEAN
      wroteOnRaise == IF lang # "rust" THEN {FALSE} ELSE BOOLEAN
  IN  {[raised |-> FALSE, returncode |-> rc, wrote |-> w] : w \in wroteOnReturn}
        \cup
      {[raised |-> TRUE, returncode |-> 1, wrote |-> w] : w \in wroteOnRaise}

\* A validity check's result: whether it raised, what it returned, and the
\* files on disk afterwards.
CheckResult(raised, ret, files) ==
  [raised |-> raised, ret |-> ret, files |-> files]

\* check_c with the comparison of its return statement inverted.
check_c_inverted(src, o, files) ==
  IF o.raised THEN CheckResult(TRUE, FALSE, files)
  ELSE CheckResult(FALSE, o.returncode # 0, files)

check_c(src, o, files) ==
  IF o.raised THEN CheckResult(TRUE, FALSE, files)
  ELSE CheckResult(FALSE, o.returncode = 0, files)

check_cpp(src, o, files) ==
  IF o.raised THEN CheckResult(TRUE, FALSE, files)
  ELSE CheckResult(FALSE, o.returncode = 0, files)

\* `with tempfile.NamedTemporaryFile() as tmp`: the file exists during the
\* block and is removed when the block is left, by return or by exception.
check_python(src, o, files) ==
  LET during == files \cup {TmpFile}
      after == during \ {TmpFile}
  IN  IF o.raised THEN CheckResult(TRUE, FALSE, after)
      ELSE CheckResult(FALSE, o.returncode = 0, after)

\* The removal of lines 34-36 follows run(): it is skipped when run() raises.
check_rust(src, o, files) ==
  LET afterRun == IF o.wrote THEN files \cup {Garbage} ELSE files
      cleaned == IF Garbage \in afterRun THEN afterRun \ {Garbage} ELSE afterRun
  IN  IF o.raised THEN CheckResult(TRUE, FALSE, afterRun)
      ELSE CheckResult(FALSE, o.returncode = 0, cleaned)

\* langs_to_check[lang](src)
check_lang_fn(lang, src, o, files) ==
  CASE lang = "c" -> check_c(src, o, files)
    [] lang = "cpp" -> check_cpp(src, o, files)
    [] lang = "python" -> check_python(src, o, files)
    [] lang = "rust" -> check_rust(src, o, files)

\* ------------------------------------------------------------------ state
VARIABLES
  pc,         \* "glob", "sample", "call": main before check_stubgen;
              \* "run": inside check_stubgen's loops; "done": it returned;
              \* "exit": main printed the summary; "raised": an exception
              \* propagated out of the script
  corpus,     \* the stems of CLASH_DIR/*.json
  n,          \* main's argument: <<>> for None, <<k>> for the integer k
  clash_ids,  \* the list of clash ids
  langs,      \* the keys of langs_to_check in iteration order
  results,    \* check_stubgen's local tallies, lang -> counters
  i,          \* index in clash_ids of the clash of the outer loop
  j,          \* 0: `coctus next` not yet issued for clash i;
              \* otherwise index in langs of the next language
  cursor,     \* the external tool's current clash
  tool,       \* the external tool: (clash, lang) -> the results it may give
  fs,         \* the transient files present in the working directory
  calls,      \* every coctus invocation issued so far, in order
  ev,         \* what the latest inner-loop iteration saw and did
  printed,    \* the lines the latest step wrote to standard output
  attempted,  \* lang -> number of generate-stub requests issued
  passed,     \* lang -> number of stubs the validity check accepted
  sole,       \* lang -> <<>> (no answer yet), <<r>> (r is the only answer
              \* the tool has given for lang) or Mixed
  report,     \* <<>> or <<the dict check_stubgen returned>>
  prev        \* <<>> or <<what an earlier check_stubgen call returned, and
              \* the order its dict was in>>

vars == <<pc, corpus, n, clash_ids, langs, results, i, j, cursor, tool, fs,
          calls, ev, printed, attempted, passed, sole, report, prev>>

NoPuzzle == "none"
NoEvent ==
  [cid |-> NoPuzzle, lang |-> "", res |-> NoResult, checked |-> <<>>,
   raised |-> FALSE, ret |-> FALSE]

ZeroTally == [n_skipped |-> 0, n_checked |-> 0, n_errors |-> 0]

\* Line 56.
InitResults(ls) == [l \in Range(ls) |-> ZeroTally]
ZeroCount(ls) == [l \in Range(ls) |-> 0]

Mixed == <<NoResult, NoResult>>
NoAnswers(ls) == [l \in Range(ls) |-> <<>>]
Answered(before, r) ==
  IF before = <<>> \/ before = <<r>> THEN <<r>> ELSE Mixed

\* A tool about which nothing is assumed.
AnyTool == [p \in PuzzleIds, l \in Languages |-> ToolResults]

\* ---------------------------------------------------------- check_stubgen
\* Line 64 with `==` in place of `in`.
IsNoGeneratorExact(returncode, stderr) ==
  returncode # 0 /\ stderr = Sentinel

\* Line 64.
IsNoGenerator(returncode, stderr) ==
  returncode # 0 /\ Contains(stderr, Sentinel)

\* Line 65 without the `continue` of line 66: line 67 counts the pair too.
AddSkippedCounted(res) ==
  [res EXCEPT !.n_skipped = @ + 1, !.n_checked = @ + 1]

\* Lines 65, 67, 70/77.
AddSkipped(res) == [res EXCEPT !.n_skipped = @ + 1]
AddChecked(res) == [res EXCEPT !.n_checked = @ + 1]
AddError(res) == [res EXCEPT !.n_errors = @ + 1]

SEPARATOR == <<"==============================">>

\* Lines 71-75 without line 73.
GenErrorReportNoStderr(lang, cid, stderr) ==
  << <<>>, <<"Stub generator for", lang, "returned non-zero for clash", cid>>,
     SEPARATOR, SEPARATOR, <<>> >>

\* Lines 71-75.
GenErrorReport(lang, cid, stderr) ==
  << <<>>, <<"Stub generator for", lang, "returned non-zero for clash", cid>>,
     SEPARATOR, stderr, SEPARATOR, <<>> >>

\* Lines 78-79.
BadStubReport(lang, cid, src) ==
  << <<>>, <<"Generated bad", lang, "stub for clash", cid>>,
     <<"https://www.codingame.com/contribute/view/", cid>> >>

\* The body of the inner loop after generate-stub returned r (lines 64-79):
\* the tally of lang, the lines printed, the sources handed to the validity
\* check, and the check's outcome. o is what the checker's process does if
\* it is run.
StubStep(cid, lang, r, o, res, files) ==
  IF IsNoGenerator(r.returncode, r.stderr)
  THEN [res |-> AddSkipped(res), out |-> <<>>, checked |-> <<>>,
        skipped |-> TRUE, raised |-> FALSE, ret |-> FALSE, files |-> files]
  ELSE IF r.returncode # 0
  THEN [res |-> AddError(AddChecked(res)),
        out |-> GenErrorReport(lang, cid, r.stderr), checked |-> <<>>,
        skipped |-> FALSE, raised |-> FALSE, ret |-> FALSE, files |-> files]
  ELSE LET c == check_lang_fn(lang, r.stdout, o, files)
       IN  IF c.raised
           THEN [res |-> AddChecked(res), out |-> <<>>,
                 checked |-> <<r.stdout>>, skipped |-> FALSE,
                 raised |-> TRUE, ret |-> FALSE, files |-> c.files]
           ELSE IF c.ret
           THEN [res |-> AddChecked(res), out |-> <<>>,
                 checked |-> <<r.stdout>>, skipped |-> FALSE,
                 raised |-> FALSE, ret |-> TRUE, files |-> c.files]
           ELSE [res |-> AddError(AddChecked(res)),
                 out |-> BadStubReport(lang, cid, r.stdout),
                 checked |-> <<r.stdout>>, skipped |-> FALSE,
                 raised |-> FALSE, ret |-> FALSE, files |-> c.files]

\* Line 59 naming the first clash every time.
SelectArgFirst(ids, k) == ids[1]

\* The clash id handed to `coctus next` (line 59).
SelectArg(ids, k) == ids[k]

\* Line 66 with `break` in place of `continue`.
AfterLangBreak(k, nlangs, skipped) ==
  IF skipped \/ k >= nlangs THEN <<1, 0>> ELSE <<0, k + 1>>

\* Where the loops stand after the iteration for language index k of a
\* clash: <<advance of the outer loop, next language index>>. The `continue`
\* of line 66 goes on with the next language like any other iteration
\* (lines 58, 61, 66).
AfterLang(k, nlangs, skipped) == IF k < nlangs THEN <<0, k + 1>> ELSE <<1, 0>>

Call(cmd, arg, cid) == [cmd |-> cmd, arg |-> arg, cid |-> cid]

\* Line 59: run([COCTUS_EXE, "next", cid]); its result is ignored.
SelectPuzzle ==
  /\ pc = "run"
  /\ i <= Len(clash_ids)
  /\ j = 0
  /\ calls' = Append(calls, Call("next", SelectArg(clash_ids, i), clash_ids[i]))
  /\ cursor' = SelectArg(clash_ids, i)
  /\ IF Len(langs) = 0
       THEN i' = i + 1 /\ j' = 0
       ELSE i' = i /\ j' = 1
  /\ printed' = <<>>
  /\ UNCHANGED <<pc, corpus, n, clash_ids, langs, results, tool, fs, ev,
                 attempted, passed, sole, report, prev>>

\* Lines 62-79: one iteration of the inner loop.
GenerateStub ==
  /\ pc = "run"
  /\ i <= Len(clash_ids)
  /\ j >= 1
  /\ j <= Len(langs)
  /\ LET cid == clash_ids[i]
         lang == langs[j]
     IN  \E r \in tool[cursor, lang] :
         \E o \in RunOutcomes(lang, r.stdout) :
           LET st == StubStep(cid, lang, r, o, results[lang], fs)
               nx == AfterLang(j, Len(langs), st.skipped)
           IN  /\ calls' = Append(calls, Call("generate-stub", lang, cid))
               /\ attempted' = [attempted EXCEPT ![lang] = @ + 1]
               /\ ev' = [cid |-> cid, lang |-> lang, res |-> r,
                         checked |-> st.checked, raised |-> st.raised,
                         ret |-> st.ret]
               /\ sole' = [sole EXCEPT ![lang] = Answered(@, r)]
               /\ printed' = st.out
               /\ fs' = st.files
               /\ passed' = IF st.ret THEN [passed EXCEPT ![lang] = @ + 1]
                            ELSE passed
               /\ IF st.raised
                    THEN \* the exception unwinds check_stubgen (and main):
                         \* its locals, the tallies among them, are gone
                         /\ pc' = "raised"
                         /\ results' = << >>
                         /\ UNCHANGED <<i, j>>
                    ELSE /\ pc' = pc
                         /\ results' = [results EXCEPT ![lang] = st.res]
                         /\ i' = i + nx[1]
                         /\ j' = nx[2]
  /\ UNCHANGED <<corpus, n, clash_ids, langs, cursor, tool, report, prev>>

\* Line 80.
Return ==
  /\ pc = "run"
  /\ i > Len(clash_ids)
  /\ pc' = "done"
  /\ report' = <<results>>
  /\ printed' = <<>>
  /\ UNCHANGED <<corpus, n, clash_ids, langs, results, i, j, cursor, tool,
                 fs, calls, ev, attempted, passed, sole, prev>>

\* check_stubgen called with any list of distinct clash ids and any dict of
\* at most MaxLangs validity checks, against an arbitrary tool; the state is
\* that of line 57.
Init ==
  /\ pc = "run"
  /\ corpus = {}
  /\ n = <<>>
  /\ clash_ids \in {[k \in 1..m |-> AllIds[k]] : m \in 0..MaxClashes}
  /\ langs \in LangDicts
  /\ results = InitResults(langs)
  /\ i = 1
  /\ j = 0
  /\ cursor = NoPuzzle
  /\ tool = AnyTool
  /\ fs = {}
  /\ calls = <<>>
  /\ ev = NoEvent
  /\ printed = <<>>
  /\ attempted = ZeroCount(langs)
  /\ passed = ZeroCount(langs)
  /\ sole = NoAnswers(langs)
  /\ report = <<>>
  /\ prev = <<>>

Next == SelectPuzzle \/ GenerateStub \/ Return

Spec == Init /\ [][Next]_vars

\* ------------------------------------------------------------------- main
\* random.sample(ids, k): the lists it can return, and when it raises
\* ValueError instead.
SampleFails(ids, k) == k > Len(ids) \/ k < 0

\* random.choices in place of random.sample: drawn with replacement.
SampleWithReplacement(ids, k) == [1..k -> Range(ids)]

Sample(ids, k) == DistinctSeqs(Range(ids), k)

\* Lines 84-88: glob lists the cache in an arbitrary order.
Glob ==
  /\ pc = "glob"
  /\ clash_ids' \in DistinctSeqs(corpus, Cardinality(corpus))
  /\ pc' = "sample"
  /\ UNCHANGED <<corpus, n, langs, results, i, j, cursor, tool, fs, calls,
                 ev, printed, attempted, passed, sole, report, prev>>

\* Lines 90-91.
DrawSample ==
  /\ pc = "sample"
  /\ IF n = <<>>
       THEN pc' = "call" /\ UNCHANGED clash_ids
       ELSE IF SampleFails(clash_ids, n[1])
       THEN pc' = "raised" /\ UNCHANGED clash_ids
       ELSE pc' = "call" /\ clash_ids' \in Sample(clash_ids, n[1])
  /\ UNCHANGED <<corpus, n, langs, results, i, j, cursor, tool, fs, calls,
                 ev, printed, attempted, passed, sole, report, prev>>

\* Lines 93-100 and 56: main builds its dict and enters check_stubgen.
StartStubgen ==
  /\ pc = "call"
  /\ langs' = MainLangs
  /\ results' = InitResults(MainLangs)
  /\ attempted' = ZeroCount(MainLangs)
  /\ passed' = ZeroCount(MainLangs)
  /\ i' = 1
  /\ j' = 0
  /\ pc' = "run"
  /\ sole' = NoAnswers(MainLangs)
  /\ UNCHANGED <<corpus, n, clash_ids, cursor, tool, fs, calls, ev, printed,
                 report, prev>>

\* Lines 102-103.
SummaryLines(rep, ls) == [k \in 1..Len(ls) |-> <<ls[k], rep[ls[k]]>>]

PrintSummary ==
  /\ pc = "done"
  /\ printed' = SummaryLines(report[1], langs)
  /\ pc' = "exit"
  /\ UNCHANGED <<corpus, n, clash_ids, langs, results, i, j, cursor, tool,
                 fs, calls, ev, attempted, passed, sole, report, prev>>

\* Synthetic tools: one that gives the same answer to every request.
UniformTool(r) == [p \in PuzzleIds, l \in Languages |-> {r}]

\* main(n) over any cache of at most MaxClashes clashes, with or without a
\* sample size, against each synthetic tool.
InitMain ==
  /\ pc = "glob"
  /\ corpus \in SUBSET PuzzleIds
  /\ n \in {<<>>} \cup {<<k>> : k \in 0..(MaxClashes + 1)}
  /\ clash_ids = <<>>
  /\ langs = <<>>
  /\ results = << >>
  /\ i = 1
  /\ j = 0
  /\ cursor = NoPuzzle
  /\ tool \in {UniformTool(r) : r \in ToolResults}
  /\ fs = {}
  /\ calls = <<>>
  /\ ev = NoEvent
  /\ printed = <<>>
  /\ attempted = << >>
  /\ passed = << >>
  /\ sole = << >>
  /\ report = <<>>
  /\ prev = <<>>

NextMain ==
  \/ Glob
  \/ DrawSample
  \/ StartStubgen
  \/ SelectPuzzle
  \/ GenerateStub
  \/ Return
  \/ PrintSummary

SpecMain == InitMain /\ [][NextMain]_vars

\* ------------------------------------------- check_stubgen, called twice
\* The answers of the deterministic tools explored: a good stub, a bad
\* stub, no generator, a generator error.
PinnedResults == {R_valid, R_invalid, R_nogen, R_err}

\* A tool whose answer is fixed by (current clash, language): any choice of
\* answers for the pairs of ids x ls.
PinnedTools(ids, ls) ==
  {[p \in PuzzleIds, l \in Languages |->
      IF p \in Range(ids) /\ l \in Range(ls) THEN {f[p, l]} ELSE {R_valid}] :
     f \in [Range(ids) \X Range(ls) -> PinnedResults]}

\* check_stubgen is called again with the same clash ids and the same
\* validity checks, the dict built in any order (lines 40, 56).
Rerun ==
  /\ pc = "done"
  /\ prev = <<>>
  /\ prev' = <<[report |-> report[1], order |-> langs]>>
  /\ langs' \in Orders(langs)
  /\ results' = InitResults(langs)
  /\ attempted' = ZeroCount(langs)
  /\ passed' = ZeroCount(langs)
  /\ sole' = NoAnswers(langs)
  /\ i' = 1
  /\ j' = 0
  /\ calls' = <<>>
  /\ ev' = NoEvent
  /\ printed' = <<>>
  /\ report' = <<>>
  /\ pc' = "run"
  /\ UNCHANGED <<corpus, n, clash_ids, cursor, tool, fs>>

\* Two-language dicts, any list of clashes, any deterministic tool.
InitOrder ==
  /\ pc = "run"
  /\ corpus = {}
  /\ n = <<>>
  /\ clash_ids \in {[k \in 1..m |-> AllIds[k]] : m \in 0..MaxClashes}
  /\ langs \in {LangWindow(1, 2), LangWindow(3, 2)}
  /\ results = InitResults(langs)
  /\ i = 1
  /\ j = 0
  /\ cursor = NoPuzzle
  /\ tool \in PinnedTools(clash_ids, langs)
  /\ fs = {}
  /\ calls = <<>>
  /\ ev = NoEvent
  /\ printed = <<>>
  /\ attempted = ZeroCount(langs)
  /\ passed = ZeroCount(langs)
  /\ sole = NoAnswers(langs)
  /\ report = <<>>
  /\ prev = <<>>

NextOrder == SelectPuzzle \/ GenerateStub \/ Return \/ Rerun

SpecOrder == InitOrder /\ [][NextOrder]_vars

\* ================================================================ claims
\* A step that is one iteration of the inner loop: the generate-stub
\* request for language langs[j] of clash clash_ids[i].
GenStep ==
  /\ pc = "run"
  /\ j >= 1
  /\ i <= Len(clash_ids)
  /\ calls' = Append(calls, Call("generate-stub", langs[j], clash_ids[i]))

Tally(s, c, e) == [n_skipped |-> s, n_checked |-> c, n_errors |-> e]

\* The step changed the tally of langs[j] by the given amounts and no
\* other tally.
TallyDelta(ds, dc, de) ==
  results' = [results EXCEPT ![langs[j]] =
                Tally(@.n_skipped + ds, @.n_checked + dc, @.n_errors + de)]

\* Some printed line has the word w / is the text t.
Mentions(lines, w) ==
  \E k \in 1..Len(lines) : \E m \in 1..Len(lines[k]) : lines[k][m] = w
HasLine(lines, t) == \E k \in 1..Len(lines) : lines[k] = t

\* Every answer the tool gave for language X was one of S.
AlwaysAnswered(X, S) ==
  sole[X] = <<>> \/ (Len(sole[X]) = 1 /\ sole[X][1] \in S)

PuzzlesStarted == IF j = 0 THEN i - 1 ELSE i

SpecSentinelWords == <<"no", "input", "stub", "generator", "available">>
CodeSentinelWords == <<"provides", "no", "input", "stub", "generator">>

SkippedOnly == TallyDelta(1, 0, 0) /\ printed' = <<>> /\ ev'.checked = <<>>

\* C2 with the sentinel of the specification: a generate-stub that exits non-zero with "no input stub
\* generator available" in its standard error is Skipped: skipped + 1,
\* checked and errors unchanged, nothing printed.
C2_AvailableSentinelSkips ==
  [][(GenStep /\ ev'.res.returncode # 0
        /\ Contains(ev'.res.stderr, SpecSentinelWords)) => SkippedOnly]_vars

IsSentinelFailure(r) ==
  r.returncode # 0 /\ Contains(r.stderr, CodeSentinelWords)
SentinelFailures == {r \in ToolResults : IsSentinelFailure(r)}

\* C2 with the sentinel of line 64: a generate-stub that exits non-zero with "provides no input
\* stub generator" in its standard error is Skipped: skipped + 1, checked
\* and errors unchanged, nothing printed; and when the tool answered so for
\* every request of language X, the returned tally has skipped(X) = number
\* of clashes and checked(X) = 0.
C2_ProvidesSentinelSkips ==
  [][/\ (GenStep /\ IsSentinelFailure(ev'.res)) => SkippedOnly
     /\ pc' = "done" =>
          \A X \in DOMAIN results' :
            AlwaysAnswered(X, SentinelFailures)' =>
              /\ results'[X].n_skipped = Len(clash_ids')
              /\ results'[X].n_checked = 0
              /\ report' = <<results'>>]_vars

C2_Witness ==
  /\ pc = "done"
  /\ \E X \in DOMAIN results :
       /\ sole[X] = <<R_nogen>>
       /\ results[X].n_skipped = MaxClashes

\* ------------------------------------------------------------------- C3
\* C3: a generate-stub that exits non-zero without the no-generator
\* sentinel is Failed: checked + 1 and errors + 1, skipped unchanged, the
\* validity check is not invoked, and the lines printed name the clash,
\* the language and carry the tool's standard error.
C3_GenerationErrorFails ==
  [][(GenStep /\ ev'.res.returncode # 0
        /\ ~Contains(ev'.res.stderr, CodeSentinelWords))
      => /\ TallyDelta(0, 1, 1)
         /\ ev'.checked = <<>>
         /\ Mentions(printed', clash_ids[i])
         /\ Mentions(printed', langs[j])
         /\ HasLine(printed', ev'.res.stderr)]_vars

C3_Witness ==
  /\ pc = "run"
  /\ ev.res = R_err
  /\ results[ev.lang].n_errors = 1
  /\ HasLine(printed, R_err.stderr)

\* ------------------------------------------------------------------- C4
ValidStubs ==
  {r \in ToolResults : r.returncode = 0 /\ Compile(r.stdout) = 0}
InvalidStubs ==
  {r \in ToolResults : r.returncode = 0 /\ Compile(r.stdout) # 0}

\* C4: when generate-stub exits zero the validity check is applied exactly
\* once, to the produced source; if it returns true only checked grows by
\* one, if it returns false checked and errors grow by one; so over n
\* clashes a tool that always emits valid C ends with {checked n, skipped 0,
\* errors 0} for "c" and one that always emits invalid C with errors =
\* checked = n, skipped = 0.
C4_StubIsChecked ==
  [][/\ (GenStep /\ ev'.res.returncode = 0) =>
          /\ ev'.checked = <<ev'.res.stdout>>
          /\ (~ev'.raised /\ ev'.ret) => TallyDelta(0, 1, 0)
          /\ (~ev'.raised /\ ~ev'.ret) => TallyDelta(0, 1, 1)
     /\ (pc' = "done" /\ "c" \in DOMAIN results') =>
          /\ AlwaysAnswered("c", ValidStubs)' =>
               results'["c"] = Tally(0, Len(clash_ids'), 0)
          /\ AlwaysAnswered("c", InvalidStubs)' =>
               results'["c"] = Tally(0, Len(clash_ids'), Len(clash_ids'))]_vars

C4_Witness ==
  /\ pc = "done"
  /\ "c" \in DOMAIN results
  /\ sole["c"] = <<R_invalid>>
  /\ results["c"] = Tally(0, MaxClashes, MaxClashes)

\* ------------------------------------------------------------------- C5
\* C5: when the validity check rejects a generated stub, the lines printed
\* carry the clash id, the language, a link to the clash and the generated
\* source; and every Failed pair prints something.
C5_BadStubDiagnostic ==
  [][/\ (GenStep /\ ev'.res.returncode = 0 /\ ~ev'.raised /\ ~ev'.ret) =>
          /\ Mentions(printed', clash_ids[i])
          /\ Mentions(printed', langs[j])
          /\ HasLine(printed', <<"https://www.codingame.com/contribute/view/",
                                 clash_ids[i]>>)
          /\ Mentions(printed', ev'.res.stdout)
     /\ (GenStep /\ pc' = "run"
           /\ results'[langs[j]].n_errors > results[langs[j]].n_errors) =>
          printed' # <<>>]_vars

\* ------------------------------------------------------------------- C6
RequestsFor(cid, lang) ==
  {k \in 1..Len(calls) : calls[k] = Call("generate-stub", lang, cid)}

\* C6: no pair's outcome (no generator, generation error, rejected stub,
\* a checker that fails to run) aborts the batch: the run ends only by
\* returning, with exactly one generate-stub request per (clash, language)
\* pair and one tally per language.
C6_BatchCompletes ==
  /\ pc # "raised"
  /\ pc = "done" =>
       /\ \A a \in 1..Len(clash_ids) : \A L \in Range(langs) :
            Cardinality(RequestsFor(clash_ids[a], L)) = 1
       /\ report = <<results>>
       /\ DOMAIN results = Range(langs)

\* ------------------------------------------------------------------- C8
\* C8: after any validity check, however it ended, neither
\* librust_out.rmeta nor check_python's temporary file exists.
C8_NoArtifactLeft == Garbage \notin fs /\ TmpFile \notin fs

\* ------------------------------------------------------------------- C9
IsNext(c) == c.cmd = "next"
NextCalls == SelectSeq(calls, IsNext)

\* C9: the select-puzzle requests issued so far name the clashes in the
\* given order, one each; every generate-stub request follows a
\* select-puzzle, and the latest select-puzzle before it names the clash
\* whose outcome it tallies; when the run returns every clash was selected.
C9_CursorOrdering ==
  /\ Len(NextCalls) <= Len(clash_ids)
  /\ \A k \in 1..Len(NextCalls) : NextCalls[k].arg = clash_ids[k]
  /\ \A k \in 1..Len(calls) :
       calls[k].cmd = "generate-stub" =>
         \E m \in 1..(k - 1) :
           /\ calls[m].cmd = "next"
           /\ calls[m].arg = calls[k].cid
           /\ \A x \in (m + 1)..(k - 1) : calls[x].cmd = "generate-stub"
  /\ pc = "done" => Len(NextCalls) = Len(clash_ids)

C9_Witness ==
  /\ pc = "done"
  /\ Len(clash_ids) = 2
  /\ Len(langs) = 2
  /\ Len(calls) = 6

\* ------------------------------------------------------------------- C7
BatchEntered == langs # <<>>

\* C7: with a sample size k <= |corpus| the batch gets exactly k pairwise
\* distinct ids of the corpus; with k > |corpus| main fails before any
\* select-puzzle or generate-stub request and produces no tally; without a
\* sample size the batch gets the whole corpus.
C7_Sampling ==
  /\ (BatchEntered /\ n = <<>>) =>
       /\ Len(clash_ids) = Cardinality(corpus)
       /\ Range(clash_ids) = corpus
  /\ (BatchEntered /\ n # <<>>) =>
       /\ n[1] <= Cardinality(corpus)
       /\ Len(clash_ids) = n[1]
       /\ Cardinality(Range(clash_ids)) = n[1]
       /\ Range(clash_ids) \subseteq corpus
  /\ (n # <<>> /\ n[1] > Cardinality(corpus)) =>
       /\ pc \in {"glob", "sample", "raised"}
       /\ ~BatchEntered
       /\ calls = <<>>
       /\ report = <<>>
  /\ (n # <<>> /\ n[1] <= Cardinality(corpus) /\ pc = "raised") =>
       calls # <<>>

C7_Witness ==
  /\ pc = "exit"
  /\ Cardinality(corpus) = 2
  /\ n = <<2>>
  /\ Len(calls) = 2 * (1 + Len(MainLangs))

\* ------------------------------------------------------------------ C10
\* C10: against a tool whose answer depends only on (current clash,
\* language), check_stubgen run again over the same clashes with its dict
\* in any order returns the same tallies as the first run.
C10_OrderIndependent ==
  (pc = "done" /\ prev # <<>>) => report[1] = prev[1].report

C10_Witness ==
  /\ pc = "done"
  /\ prev # <<>>
  /\ prev[1].order # langs
  /\ \E X, Y \in Range(langs) :
       /\ X # Y
       /\ results[X].n_skipped >= 1
       /\ results[Y].n_errors >= 1

====
